---- MODULE Spec2Model ----
(***************************************************************************)
(* Model of src/server.py: the sleeve-colour detection server.             *)
(*                                                                         *)
(*   detect_sleeve_color  the detection function, wrapped WHOLE (override  *)
(*                        check included) by functools.lru_cache           *)
(*   analyze_shirt        GET /analyze                                     *)
(*   add_override         POST /add_override                               *)
(*                                                                         *)
(* Strings are sequences of one-character strings so that the regular      *)
(* expression of analyze_shirt can be evaluated character by character.    *)
(* JSON values are records [t, s, n] with the same three fields for every  *)
(* JSON type, so that values of different types can be compared.           *)
(***************************************************************************)
EXTENDS Integers, Sequences, FiniteSets, TLC

(***************************************************************************)
(* Bounds of the model.                                                    *)
(***************************************************************************)
\* Capacity of the lru_cache.  The code says maxsize=100 (server.py:72);
\* the model is parametric in it and is checked with a small capacity so
\* that the cache fills and evicts within the explored requests.
maxsize == 2

\* Number of request-handling threads of the concurrent specification.
NumThreads == 2

\* Largest number of pixels (width * height) of the image specification.
MaxPixels == 9

(***************************************************************************)
(* JSON values (request.json payload fields, colours).                     *)
(***************************************************************************)
JNull == [t |-> "null", s |-> <<>>, n |-> <<>>]

JStr(str) == [t |-> "str", s |-> str, n |-> <<>>]

JNum(k) == [t |-> "num", s |-> <<>>, n |-> <<k>>]

JBool(b) == [t |-> "bool", s |-> <<>>, n |-> <<IF b THEN 1 ELSE 0>>]

JList(l) == [t |-> "list", s |-> <<>>, n |-> l]

\* Python truthiness: None, "", 0, False and [] are falsy.
Truthy(v) ==
    CASE v.t = "null" -> FALSE
      [] v.t = "str"  -> Len(v.s) > 0
      [] v.t = "num"  -> v.n[1] # 0
      [] v.t = "bool" -> v.n[1] = 1
      [] v.t = "list" -> Len(v.n) > 0

\* len() is defined for str and list and raises TypeError for int and bool.
HasLen(v) == v.t \in {"str", "list"}

PyLen(v) == IF v.t = "str" THEN Len(v.s) ELSE Len(v.n)

\* A list cannot be a dict key (TypeError: unhashable type).
Hashable(v) == v.t # "list"

\* Python dict keys are compared with ==, and True == 1, False == 0.
DictKey(v) == IF v.t = "bool" THEN JNum(v.n[1]) ELSE v

(***************************************************************************)
(* re.match(r"^\d+$", texture_id) of analyze_shirt.                        *)
(***************************************************************************)
Digits == {"0", "1", "2", "3", "4", "5", "6", "7", "8", "9"}

\* Python's $ matches at the end of the string and also just before a
\* newline that is the last character of the string.
ReMatchNumeric(str) ==
    LET body == IF Len(str) > 0 /\ str[Len(str)] = "\n"
                THEN SubSeq(str, 1, Len(str) - 1)
                ELSE str
        AllDigits(x) == Len(x) > 0 /\ \A i \in 1..Len(x) : x[i] \in Digits
    IN  AllDigits(str) \/ AllDigits(body)

(***************************************************************************)
(* Colours and images.                                                     *)
(***************************************************************************)
\* [255, 255, 255], the colour returned when nothing is detected or when
\* detection fails.
White == JList(<<255, 255, 255>>)

\* What the claims call a ColorTriple: a list of three integers in 0..255.
IsColorTriple(v) ==
    /\ v.t = "list"
    /\ Len(v.n) = 3
    /\ \A i \in 1..3 : v.n[i] \in 0..255

\* A decoded RGBA image: width, height and one <<r, g, b, a>> per pixel.
MkImage(w, h, F(_, _)) ==
    [w |-> w, h |-> h,
     px |-> [c \in (0..(w - 1)) \X (0..(h - 1)) |-> F(c[1], c[2])]]

SolidPx(x, y) == <<200, 100, 50, 255>>

ClearPx(x, y) == <<10, 20, 30, 128>>

\* Opaque only in the top-left corner, outside the four detection areas.
CornerPx(x, y) == IF x = 0 /\ y = 0 THEN <<7, 8, 9, 129>> ELSE <<0, 0, 0, 0>>

\* Two colours side by side; the mean of the pooled pixels is not integral.
SplitPx(x, y) == IF x < 5 THEN <<0, 0, 255, 255>> ELSE <<255, 0, 0, 200>>

\* The remote fixtures of the model.
Images ==
    <<MkImage(10, 10, SolidPx), MkImage(10, 10, ClearPx),
      MkImage(10, 10, CornerPx), MkImage(10, 10, SplitPx),
      MkImage(1, 1, SolidPx)>>

(***************************************************************************)
(* detect_sleeve_color: region sampling, opacity filter, aggregation.      *)
(***************************************************************************)
\* int(dim * 0.t): for dim < 90 the float product truncates to the same
\* integer as the exact product (the first difference is int(90 * 0.7) = 62).
Frac(dim, tenths) == (dim * tenths) \div 10

\* Right Sleeve, Left Sleeve, Full Arm, Shoulder as (x0, y0, x1, y1).
detection_areas(w, h) ==
    << <<Frac(w, 7), Frac(h, 4), Frac(w, 9), Frac(h, 6)>>,
       <<Frac(w, 1), Frac(h, 4), Frac(w, 3), Frac(h, 6)>>,
       <<Frac(w, 1), Frac(h, 3), Frac(w, 9), Frac(h, 7)>>,
       <<Frac(w, 6), Frac(h, 2), Frac(w, 8), Frac(h, 4)>> >>

\* img.crop(area) as the row-major sequence of its pixels.
Crop(img, area) ==
    LET rw == area[3] - area[1]
        rh == area[4] - area[2]
    IN  IF rw <= 0 \/ rh <= 0
        THEN <<>>
        ELSE [i \in 1..(rw * rh) |->
                 img.px[<<area[1] + ((i - 1) % rw), area[2] + ((i - 1) \div rw)>>]]

\* pixels[pixels[:, :, 3] > 128]
alpha_threshold == 128

\* IsOpaque with an inclusive threshold.
IsOpaqueInclusive(p) == p[4] >= alpha_threshold

IsOpaque(p) == p[4] > alpha_threshold

OpaqueOf(pixels) == SelectSeq(pixels, IsOpaque)

\* PoolAreas that stops at the first area with an opaque pixel.
RECURSIVE PoolAreasFirst(_, _, _)
PoolAreasFirst(img, areas, i) ==
    IF i > Len(areas)
    THEN <<>>
    ELSE LET region_opaque_pixels == OpaqueOf(Crop(img, areas[i]))
         IN  IF Len(region_opaque_pixels) > 0
             THEN region_opaque_pixels
             ELSE PoolAreasFirst(img, areas, i + 1)

\* The loop over detection_areas: the opaque pixels of each area are
\* appended, so a pixel lying in k areas is appended k times.
RECURSIVE PoolAreas(_, _, _)
PoolAreas(img, areas, i) ==
    IF i > Len(areas)
    THEN <<>>
    ELSE LET region_opaque_pixels == OpaqueOf(Crop(img, areas[i]))
         IN  (IF Len(region_opaque_pixels) > 0 THEN region_opaque_pixels ELSE <<>>)
             \o PoolAreas(img, areas, i + 1)

RECURSIVE SumChannel(_, _)
SumChannel(pixels, c) ==
    IF pixels = <<>> THEN 0 ELSE Head(pixels)[c] + SumChannel(Tail(pixels), c)

\* np.mean(..., axis=0).astype(int): per-channel mean, truncated.
avg_color(pixels) ==
    JList(<<SumChannel(pixels, 1) \div Len(pixels),
            SumChannel(pixels, 2) \div Len(pixels),
            SumChannel(pixels, 3) \div Len(pixels)>>)

\* DetectImage without the whole-image pass.
DetectImageNoFallback(img) ==
    LET pooled == PoolAreas(img, detection_areas(img.w, img.h), 1)
    IN  IF Len(pooled) > 0
        THEN [value |-> avg_color(pooled), via |-> "areas"]
        ELSE [value |-> White, via |-> "empty"]

\* DetectImage that always adds the whole image to the pool.
DetectImagePoolWhole(img) ==
    LET pooled == PoolAreas(img, detection_areas(img.w, img.h), 1)
        whole  == OpaqueOf(Crop(img, <<0, 0, img.w, img.h>>))
    IN  IF Len(pooled) > 0
        THEN [value |-> avg_color(pooled \o whole), via |-> "areas"]
        ELSE IF Len(whole) > 0
             THEN [value |-> avg_color(whole), via |-> "whole"]
             ELSE [value |-> White, via |-> "empty"]

\* The body of the "with Image.open(...)" block.
DetectImage(img) ==
    LET pooled == PoolAreas(img, detection_areas(img.w, img.h), 1)
        whole  == OpaqueOf(Crop(img, <<0, 0, img.w, img.h>>))
    IN  IF Len(pooled) > 0
        THEN [value |-> avg_color(pooled), via |-> "areas"]
        ELSE IF Len(whole) > 0
             THEN [value |-> avg_color(whole), via |-> "whole"]
             ELSE [value |-> White, via |-> "empty"]

(***************************************************************************)
(* The outcome of requests.get + raise_for_status + Image.open + convert.  *)
(* kind "ok" carries the index of the decoded image in Images; the other   *)
(* kinds are the exceptions raised inside the try block.                   *)
(***************************************************************************)
FailureKinds == {"connection_error", "timeout", "http_error", "decode_error"}

Failure(kind) == [kind |-> kind, img |-> 0]

Fetched(i) == [kind |-> "ok", img |-> i]

\* What the image block returns for each remote fixture.
Detected == [i \in 1..Len(Images) |-> DetectImage(Images[i])]

\* What the try block returns once the image block has returned d.
ImageResult(d) ==
    [exc |-> FALSE, value |-> d.value, via |-> d.via, fetches |-> 1,
     outcome |-> "ok"]

\* Lines 80-138: the part of the try block after the override check.
Pipeline(outcome) ==
    IF outcome.kind = "ok"
    THEN ImageResult(Detected[outcome.img])
    ELSE [exc |-> TRUE, value |-> JNull, via |-> "raised", fetches |-> 1,
          outcome |-> outcome.kind]

\* ExceptClause without the handler: the exception propagates.
ExceptClauseReraise(r) == r

\* Lines 140-143: "except Exception" returns [255, 255, 255].
ExceptClause(r) ==
    IF r.exc
    THEN [exc |-> FALSE, value |-> White, via |-> "fallback", fetches |-> r.fetches,
          outcome |-> r.outcome]
    ELSE r

\* Lines 75-78: the override check, the first statement of the try block.
OverrideCheck(ov, texture_id) == JStr(texture_id) \in DOMAIN ov

\* The undecorated function body, lines 73-143.
detect_body(ov, texture_id, outcome) ==
    ExceptClause(
        IF OverrideCheck(ov, texture_id)
        THEN [exc |-> FALSE, value |-> ov[JStr(texture_id)], via |-> "override",
              fetches |-> 0, outcome |-> "none"]
        ELSE Pipeline(outcome))

(***************************************************************************)
(* functools.lru_cache(maxsize) around detect_sleeve_color (line 72).      *)
(* The cache is the sequence of its entries, least recently used first.    *)
(***************************************************************************)
CacheKeys(c) == {c[i].key : i \in 1..Len(c)}

CacheIndex(c, key) == CHOOSE i \in 1..Len(c) : c[i].key = key

CacheGet(c, key) == c[CacheIndex(c, key)].result

\* LruTouch that leaves the order alone (first-in first-out eviction).
LruTouchNoMove(c, key) == c

\* A hit moves the entry to the most-recently-used end.
LruTouch(c, key) ==
    LET i == CacheIndex(c, key)
    IN  SubSeq(c, 1, i - 1) \o SubSeq(c, i + 1, Len(c)) \o <<c[i]>>

\* LruStore that forgets the result.
LruStoreDrop(c, key, result) == c

\* LruStore that does not memoize the sentinel colour.
LruStoreSkipWhite(c, key, result) ==
    IF key \in CacheKeys(c) \/ result = White
    THEN c
    ELSE IF Len(c) >= maxsize
         THEN Tail(c) \o <<[key |-> key, result |-> result]>>
         ELSE Append(c, [key |-> key, result |-> result])

\* LruStore that empties the full cache instead of evicting one entry.
LruStoreFlush(c, key, result) ==
    IF key \in CacheKeys(c)
    THEN c
    ELSE IF Len(c) >= maxsize
         THEN <<[key |-> key, result |-> result]>>
         ELSE Append(c, [key |-> key, result |-> result])

\* After the call: nothing if the key was added meanwhile, else the oldest
\* entry is dropped when the cache is full, and the result is appended.
LruStore(c, key, result) ==
    IF key \in CacheKeys(c)
    THEN c
    ELSE IF Len(c) >= maxsize
         THEN Tail(c) \o <<[key |-> key, result |-> result]>>
         ELSE Append(c, [key |-> key, result |-> result])

\* One whole call of the decorated detect_sleeve_color(texture_id).
detect_sleeve_color(c, ov, texture_id, outcome) ==
    IF texture_id \in CacheKeys(c)
    THEN [cache |-> LruTouch(c, texture_id), exc |-> FALSE,
          value |-> CacheGet(c, texture_id), via |-> "hit", fetches |-> 0,
          outcome |-> "none"]
    ELSE LET r == detect_body(ov, texture_id, outcome)
         IN  [cache |-> IF r.exc THEN c ELSE LruStore(c, texture_id, r.value),
              exc |-> r.exc, value |-> r.value, via |-> r.via,
              fetches |-> r.fetches, outcome |-> r.outcome]

(***************************************************************************)
(* State.                                                                  *)
(***************************************************************************)
VARIABLES
    SHIRT_OVERRIDES,  \* the override dict: DictKey -> colour value
    cache,            \* the lru_cache of detect_sleeve_color
    resp,             \* the last HTTP response, with what produced it
    recency,          \* history: texture ids passed to detect, in order of last use
    th,               \* per thread: the detect call it is in the middle of
    image             \* the decoded image of the image specification

vars == <<SHIRT_OVERRIDES, cache, resp, recency, th, image>>

Threads == 1..NumThreads

IdleThread ==
    [pc |-> "idle", texture_id |-> <<>>, exc |-> FALSE, value |-> JNull,
     via |-> "none", fetches |-> 0, outcome |-> "none"]

NoResponse ==
    [op |-> "none", status |-> 0, texture_id |-> JNull, color |-> JNull,
     via |-> "none", fetches |-> 0, outcome |-> "none", total_overrides |-> 0,
     error |-> "none"]

\* The state of the process after import: no override, nothing cached.
Started ==
    /\ SHIRT_OVERRIDES = [k \in {} |-> JNull]
    /\ cache = <<>>
    /\ resp = NoResponse
    /\ recency = <<>>
    /\ th = [t \in Threads |-> IdleThread]

\* No image is under test outside the image specification.
NoImage == [w |-> 0, h |-> 0, px |-> <<>>]

Init == Started /\ image = NoImage

\* The ids in use order after one more use of texture_id.
Used(r, texture_id) ==
    SelectSeq(r, LAMBDA x : x # texture_id) \o <<texture_id>>

(***************************************************************************)
(* GET /analyze?texture_id=...  (analyze_shirt, one whole request).        *)
(***************************************************************************)
AnalyzeResponse(texture_id, r) ==
    IF r.exc
    THEN [op |-> "analyze", status |-> 500, texture_id |-> JStr(texture_id),
          color |-> JNull, via |-> r.via, fetches |-> r.fetches,
          outcome |-> r.outcome, total_overrides |-> 0,
          error |-> "Internal Server Error"]
    ELSE [op |-> "analyze", status |-> 200, texture_id |-> JStr(texture_id),
          color |-> r.value, via |-> r.via, fetches |-> r.fetches,
          outcome |-> r.outcome, total_overrides |-> 0, error |-> "none"]

InvalidIdResponse(texture_id) ==
    [op |-> "analyze", status |-> 400, texture_id |-> JStr(texture_id),
     color |-> JNull, via |-> "rejected", fetches |-> 0, outcome |-> "none",
     total_overrides |-> 0, error |-> "Texture ID must be numeric"]

analyze_shirt(texture_id, outcome) ==
    /\ IF ~ReMatchNumeric(texture_id)
       THEN /\ resp' = InvalidIdResponse(texture_id)
            /\ UNCHANGED <<cache, recency>>
       ELSE LET r == detect_sleeve_color(cache, SHIRT_OVERRIDES, texture_id, outcome)
            IN  /\ cache' = r.cache
                /\ recency' = Used(recency, texture_id)
                /\ resp' = AnalyzeResponse(texture_id, r)
    /\ UNCHANGED <<SHIRT_OVERRIDES, th, image>>

(***************************************************************************)
(* POST /add_override  (add_override, one whole request).                  *)
(* body.isdict is FALSE when request.json raises or is not a JSON object;  *)
(* a field that is absent reads as None (JNull) through data.get.          *)
(***************************************************************************)
\* resp.texture_id and resp.color of an add_override response are the two
\* fields of the request body, resp.via tells whether the body was an object.
OverrideResponse(body, status, total, error) ==
    [op |-> "add_override", status |-> status, texture_id |-> body.texture_id,
     color |-> body.color, via |-> IF body.isdict THEN "dict" ELSE "nondict",
     fetches |-> 0, outcome |-> "none", total_overrides |-> total, error |-> error]

\* The status the handler ends with, in the order the code decides it.
OverrideStatus(body) ==
    CASE ~body.isdict -> 500
      [] ~Truthy(body.texture_id) -> 400
      [] ~Truthy(body.color) -> 400
      [] ~HasLen(body.color) -> 500
      [] PyLen(body.color) # 3 -> 400
      [] ~Hashable(body.texture_id) -> 500
      [] OTHER -> 200

\* DictPut that rebinds the dict to the new entry alone.
DictPutAlone(d, k, v) == [x \in {DictKey(k)} |-> v]

\* SHIRT_OVERRIDES[texture_id] = color
DictPut(d, k, v) ==
    [x \in DOMAIN d \cup {DictKey(k)} |-> IF x = DictKey(k) THEN v ELSE d[x]]

add_override(body) ==
    LET status == OverrideStatus(body)
    IN  /\ IF status = 200
           THEN /\ SHIRT_OVERRIDES' = DictPut(SHIRT_OVERRIDES, body.texture_id, body.color)
                /\ resp' = OverrideResponse(body, 200,
                               Cardinality(DOMAIN SHIRT_OVERRIDES'), "none")
           ELSE /\ UNCHANGED SHIRT_OVERRIDES
                /\ resp' = OverrideResponse(body, status, 0,
                               IF status = 400 THEN "Invalid parameters"
                                               ELSE "exception")
        /\ UNCHANGED <<cache, recency, th, image>>

(***************************************************************************)
(* The sequential specification: whole requests, one after the other.      *)
(***************************************************************************)
Str1 == <<"1">>

Str2 == <<"2">>

Str3 == <<"3">>

Str4 == <<"4">>

Ids == <<Str1, Str2, Str3, Str4>>

\* One identifier more than the cache holds.
CoreIds == {Ids[i] : i \in 1..(maxsize + 1)}

Color1 == JList(<<10, 20, 30>>)

Color2 == JList(<<300, -1, 0>>)

TextureIds == CoreIds \cup {<<>>, <<"a", "b", "c">>}

Outcomes == {Failure("timeout"), Fetched(1), Fetched(2)}

Body(texture_id, color) == [isdict |-> TRUE, texture_id |-> texture_id, color |-> color]

NoJsonObject == [isdict |-> FALSE, texture_id |-> JNull, color |-> JNull]

Bodies ==
    {Body(JStr(Str1), Color1), Body(JStr(Str1), Color2), Body(JStr(Str2), Color1),
     Body(JNull, Color1), Body(JStr(Str1), JList(<<1, 2>>))}

Next ==
    \/ \E texture_id \in TextureIds, outcome \in Outcomes :
           analyze_shirt(texture_id, outcome)
    \/ \E body \in Bodies : add_override(body)

Spec == Init /\ [][Next]_vars

(***************************************************************************)
(* The boundary specification: the same two handlers, driven with          *)
(* malformed identifiers and malformed override payloads.                  *)
(***************************************************************************)
BoundaryTextureIds ==
    {<<>>, <<"a">>, <<"1">>, <<"1", "2">>, <<"1", "a">>, <<"1", "\n">>,
     <<"\n", "1">>}

BoundaryOutcomes == {Failure("http_error"), Fetched(2)}

BoundaryBodies ==
    {NoJsonObject} \cup
    {Body(t, c) :
        t \in {JNull, JStr(<<>>), JStr(Str1), JNum(1), JBool(TRUE), JList(<<1>>)},
        c \in {JNull, JList(<<1, 2>>), Color1, JNum(5), JStr(<<"a", "b", "c">>)}}

NextBoundary ==
    \/ \E texture_id \in BoundaryTextureIds, outcome \in BoundaryOutcomes :
           analyze_shirt(texture_id, outcome)
    \/ \E body \in BoundaryBodies : add_override(body)

SpecBoundary == Init /\ [][NextBoundary]_vars

(***************************************************************************)
(* The concurrent specification: GET /analyze handled by NumThreads        *)
(* threads.  lru_cache holds its lock for the lookup and for the store     *)
(* only; the call of the wrapped function runs between the two, unlocked,  *)
(* and blocks in requests.get.                                             *)
(***************************************************************************)
\* Lines 153-164 up to the cache lookup of the wrapper: a rejected id and a
\* cache hit are answered at once, a miss goes on to call the function.
BeginAnalyze(t, texture_id) ==
    /\ th[t].pc = "idle"
    /\ IF ~ReMatchNumeric(texture_id)
       THEN /\ resp' = InvalidIdResponse(texture_id)
            /\ UNCHANGED <<cache, recency, th>>
       ELSE /\ recency' = Used(recency, texture_id)
            /\ IF texture_id \in CacheKeys(cache)
               THEN /\ cache' = LruTouch(cache, texture_id)
                    /\ resp' = AnalyzeResponse(texture_id,
                                  [exc |-> FALSE, value |-> CacheGet(cache, texture_id),
                                   via |-> "hit", fetches |-> 0, outcome |-> "none"])
                    /\ UNCHANGED th
               ELSE /\ th' = [th EXCEPT ![t] =
                                 [IdleThread EXCEPT !.pc = "called",
                                                    !.texture_id = texture_id]]
                    /\ UNCHANGED <<cache, resp>>
    /\ UNCHANGED <<SHIRT_OVERRIDES, image>>

\* Lines 75-89: the override check, then the request is sent.
CallDetect(t) ==
    /\ th[t].pc = "called"
    /\ IF OverrideCheck(SHIRT_OVERRIDES, th[t].texture_id)
       THEN th' = [th EXCEPT ![t].pc = "returned",
                             ![t].value = SHIRT_OVERRIDES[JStr(th[t].texture_id)],
                             ![t].via = "override"]
       ELSE th' = [th EXCEPT ![t].pc = "fetching"]
    /\ UNCHANGED <<SHIRT_OVERRIDES, cache, resp, recency, image>>

\* Lines 89-143: requests.get returns or raises, the rest is thread-local.
FetchReturn(t, outcome) ==
    /\ th[t].pc = "fetching"
    /\ LET r == ExceptClause(Pipeline(outcome))
       IN  th' = [th EXCEPT ![t].pc = "returned", ![t].exc = r.exc,
                            ![t].value = r.value, ![t].via = r.via,
                            ![t].fetches = r.fetches, ![t].outcome = r.outcome]
    /\ UNCHANGED <<SHIRT_OVERRIDES, cache, resp, recency, image>>

\* The store of the wrapper, then lines 166-178.
StoreAndRespond(t) ==
    /\ th[t].pc = "returned"
    /\ cache' = IF th[t].exc THEN cache
                ELSE LruStore(cache, th[t].texture_id, th[t].value)
    /\ resp' = AnalyzeResponse(th[t].texture_id, th[t])
    /\ th' = [th EXCEPT ![t] = IdleThread]
    /\ UNCHANGED <<SHIRT_OVERRIDES, recency, image>>

ConcTextureIds == {Str1, Str2, <<"a">>}

ConcOutcomes == {Failure("connection_error"), Fetched(4)}

ConcBodies == {Body(JStr(Str1), Color1), Body(JStr(Str1), JNull)}

NextConc ==
    \/ \E t \in Threads, texture_id \in ConcTextureIds : BeginAnalyze(t, texture_id)
    \/ \E t \in Threads : CallDetect(t)
    \/ \E t \in Threads, outcome \in ConcOutcomes : FetchReturn(t, outcome)
    \/ \E t \in Threads : StoreAndRespond(t)
    \/ \E body \in ConcBodies : add_override(body)

SpecConc == Init /\ [][NextConc]_vars

(***************************************************************************)
(* The image specification: one GET /analyze of an id that is neither      *)
(* cached nor overridden, for every decoded image of at most MaxPixels     *)
(* pixels over the palette.                                                *)
(***************************************************************************)
\* Alpha exactly at the threshold: not opaque.
PxClear == <<10, 20, 30, 128>>

PxA == <<200, 100, 50, 255>>

\* Alpha just above the threshold: opaque.
PxB == <<0, 0, 255, 129>>

Palette == {PxClear, PxA, PxB}

\* The pixel grids of a w x h image.
PixelGrids(w, h) == [(0..(w - 1)) \X (0..(h - 1)) -> Palette]

InitImage ==
    /\ Started
    /\ \E w \in 1..MaxPixels, h \in 1..MaxPixels :
           /\ w * h <= MaxPixels
           /\ \E f \in PixelGrids(w, h) : image = [w |-> w, h |-> h, px |-> f]

\* analyze_shirt("1") in the started process, the remote serving image.
analyze_image ==
    /\ resp.op = "none"
    /\ LET r == ExceptClause(ImageResult(DetectImage(image)))
       IN  /\ cache' = IF r.exc THEN cache ELSE LruStore(cache, Str1, r.value)
           /\ recency' = Used(recency, Str1)
           /\ resp' = AnalyzeResponse(Str1, r)
    /\ UNCHANGED <<SHIRT_OVERRIDES, th, image>>

NextImage == analyze_image

SpecImage == InitImage /\ [][NextImage]_vars

(***************************************************************************)
(* Properties.                                                             *)
(***************************************************************************)
\* The texture id of the last response, as the string detect was called with.
RespId == resp.texture_id.s

AnalyzeOk == resp.op = "analyze" /\ resp.status = 200

\* C1: once an override is set for an id, every later detect of that id
\* returns the override colour, also when an earlier detect had already
\* cached another colour for the id.
C1_OverridePrecedence ==
    (AnalyzeOk /\ resp.texture_id \in DOMAIN SHIRT_OVERRIDES)
        => resp.color = SHIRT_OVERRIDES[resp.texture_id]

\* C2: a detect resolved by the override table leaves no cache entry for the
\* id, and a detect of an overridden id is never answered from the cache.
C2_OverrideBypassesCache ==
    AnalyzeOk =>
        /\ resp.via = "override" => RespId \notin CacheKeys(cache)
        /\ resp.texture_id \in DOMAIN SHIRT_OVERRIDES => resp.via # "hit"

\* C3: without an override, detect of a cached id returns the stored colour
\* with no fetch and detect of an uncached id fetches exactly once, stores
\* the result and returns it; so right after any such call the colour
\* returned is the colour cached, and the next call returns it again.
C3_CacheHitMiss ==
    [][(resp'.op = "analyze" /\ resp'.status = 200
            /\ resp'.texture_id \notin DOMAIN SHIRT_OVERRIDES)
        => LET id == resp'.texture_id.s
           IN  /\ IF id \in CacheKeys(cache)
                  THEN /\ resp'.color = CacheGet(cache, id)
                       /\ resp'.fetches = 0
                  ELSE resp'.fetches = 1
               /\ id \in CacheKeys(cache')
               /\ CacheGet(cache', id) = resp'.color]_vars

C3_Witness ==
    /\ AnalyzeOk
    /\ resp.texture_id \notin DOMAIN SHIRT_OVERRIDES
    /\ resp.via = "hit"
    /\ resp.fetches = 0
    /\ resp.color = Detected[1].value

\* The cached id used longest ago, by the order of the detect calls.
LeastRecentlyUsed == SelectSeq(recency, LAMBDA x : x \in CacheKeys(cache))[1]

\* C4: the cache never holds more than maxsize entries; an entry leaves the
\* cache only when a miss is stored into the full cache, and it is the least
\* recently used one (hits count as uses); a detect of an id that is not
\* cached computes afresh and a detect of a cached id is answered from it.
C4_LruEviction ==
    [][/\ Len(cache') <= maxsize
       /\ CacheKeys(cache) \ CacheKeys(cache') # {}
            => /\ Len(cache) = maxsize
               /\ Len(cache') = maxsize
               /\ CacheKeys(cache) \ CacheKeys(cache') = {LeastRecentlyUsed}
               /\ CacheKeys(cache') \ CacheKeys(cache) = {resp'.texture_id.s}
       /\ (resp'.op = "analyze" /\ resp'.status = 200)
            => (resp'.via = "hit" <=> resp'.texture_id.s \in CacheKeys(cache))]_vars

\* An id was evicted after a hit had changed the use order, and detect of
\* it has just been computed afresh from the remote.
C4_Witness ==
    /\ AnalyzeOk
    /\ Len(cache) = maxsize
    /\ Len(recency) > maxsize
    /\ resp.fetches = 1
    /\ resp.outcome = "ok"
    /\ \E i \in 1..Len(cache) : cache[i].result = White

C6_ColorRange == AnalyzeOk => IsColorTriple(resp.color)

\* A non-empty string of decimal digits.
IsNumericString(str) == Len(str) > 0 /\ \A i \in 1..Len(str) : str[i] \in Digits

\* C7: /analyze answers 400, touching neither store and without detection,
\* exactly when the id is not a numeric string, and 200 for every numeric
\* string; detect is only called with numeric strings.
C7_AnalyzeBoundary ==
    [][resp'.op = "analyze"
        => IF IsNumericString(resp'.texture_id.s)
           THEN resp'.status = 200
           ELSE /\ resp'.status = 400
                /\ resp'.fetches = 0
                /\ UNCHANGED <<cache, SHIRT_OVERRIDES>>]_vars

\* The payloads C8 calls valid: a non-empty texture_id and a 3-element list.
ValidOverridePayload(texture_id, color) ==
    /\ Truthy(texture_id)
    /\ color.t = "list"
    /\ Len(color.n) = 3

\* C8: /add_override answers 200 and stores the override exactly for valid
\* payloads and 400 "Invalid parameters" for every other one, and leaves
\* the table alone whenever it does not answer 200.
C8_OverrideValidation ==
    [][(resp'.op = "add_override" /\ resp'.via = "dict")
        => IF ValidOverridePayload(resp'.texture_id, resp'.color)
           THEN /\ resp'.status = 200
                /\ DictKey(resp'.texture_id) \in DOMAIN SHIRT_OVERRIDES'
                /\ SHIRT_OVERRIDES'[DictKey(resp'.texture_id)] = resp'.color
           ELSE /\ resp'.status = 400
                /\ resp'.error = "Invalid parameters"
                /\ UNCHANGED SHIRT_OVERRIDES]_vars

\* C9: a successful add_override reports the number of keys of the table,
\* which is one more than before for a new key and the same for a key
\* already present; no step removes a key.
C9_OverrideCount ==
    [][/\ DOMAIN SHIRT_OVERRIDES \subseteq DOMAIN SHIRT_OVERRIDES'
       /\ (resp'.op = "add_override" /\ resp'.status = 200)
            => /\ resp'.total_overrides = Cardinality(DOMAIN SHIRT_OVERRIDES')
               /\ resp'.total_overrides =
                    Cardinality(DOMAIN SHIRT_OVERRIDES)
                      + (IF DictKey(resp'.texture_id) \in DOMAIN SHIRT_OVERRIDES
                         THEN 0 ELSE 1)]_vars

\* Two keys are set, the last request being for the key True.
C9_Witness ==
    /\ resp.op = "add_override"
    /\ resp.status = 200
    /\ resp.texture_id = JBool(TRUE)
    /\ resp.total_overrides = 2
    /\ DOMAIN SHIRT_OVERRIDES = {JStr(Str1), JNum(1)}

\* C10: at most one thread at a time is fetching for a given texture id.
C10_SingleFlight ==
    \A t1, t2 \in Threads :
        (t1 # t2 /\ th[t1].pc = "fetching" /\ th[t2].pc = "fetching")
            => th[t1].texture_id # th[t2].texture_id

\* The image specification has answered its request.
Tested == image.w > 0 /\ resp.op = "analyze"

Coords(img) == (0..(img.w - 1)) \X (0..(img.h - 1))

\* C11: if every pixel of the image has alpha <= 128, detect returns white.
C11_AllTransparentIsWhite ==
    (Tested /\ \A c \in Coords(image) : image.px[c][4] <= 128)
        => resp.status = 200 /\ resp.color = White

C11_Witness ==
    /\ Tested
    /\ image.w * image.h >= 8
    /\ \A c \in Coords(image) : image.px[c][4] = 128
    /\ resp.color = White

\* C12: if every pixel of the image is opaque with one colour (r, g, b),
\* detect returns (r, g, b), whatever the size of the image.
C12_SolidColorIsExact ==
    \A p \in Palette :
        (Tested /\ p[4] > 128 /\ \A c \in Coords(image) : image.px[c] = p)
            => resp.color = JList(<<p[1], p[2], p[3]>>)

\* A 1 x 1 opaque image: all four areas are empty.
C12_Witness ==
    /\ Tested
    /\ image.w = 1
    /\ image.h = 1
    /\ image.px[<<0, 0>>] = PxB
    /\ resp.color = JList(<<0, 0, 255>>)

\* The pixel at c lies inside area a = (x0, y0, x1, y1).
InArea(c, a) == a[1] <= c[1] /\ c[1] < a[3] /\ a[2] <= c[2] /\ c[2] < a[4]

\* The number of the areas the pixel at c lies in.
Multiplicity(areas, c) == Cardinality({i \in 1..Len(areas) : InArea(c, areas[i])})

\* <<n, r, g, b>>: the weighted number of opaque pixels of the image from
\* the i-th on (row by row) and the weighted sums of their channels, the
\* weight of a pixel being its multiplicity in areas, or 1 if areas is empty.
RECURSIVE OpaqueTotals(_, _, _)
OpaqueTotals(img, areas, i) ==
    IF i > img.w * img.h
    THEN <<0, 0, 0, 0>>
    ELSE LET c == <<(i - 1) % img.w, (i - 1) \div img.w>>
             p == img.px[c]
             k == IF p[4] <= 128 THEN 0
                  ELSE IF areas = <<>> THEN 1 ELSE Multiplicity(areas, c)
             rest == OpaqueTotals(img, areas, i + 1)
         IN  <<k + rest[1], k * p[1] + rest[2], k * p[2] + rest[3], k * p[3] + rest[4]>>

\* Opaque pixels weighted by the number of detection areas they lie in.
PooledTotals(img) == OpaqueTotals(img, detection_areas(img.w, img.h), 1)

\* Opaque pixels of the whole image, each once.
WholeTotals(img) == OpaqueTotals(img, <<>>, 1)

\* The truncated per-channel mean of totals <<n, r, g, b>>.
MeanOf(totals) ==
    JList(<<totals[2] \div totals[1], totals[3] \div totals[1],
            totals[4] \div totals[1]>>)

\* C13: when some area holds an opaque pixel, detect returns the truncated
\* per-channel mean of the opaque pixels of the four areas, a pixel lying
\* in k areas counted k times.
C13_PooledMean ==
    Tested =>
        LET pooled == PooledTotals(image)
        IN  pooled[1] > 0 => resp.color = MeanOf(pooled)

\* 4 x 2: PxA at (2,0) lies in Right Sleeve and Full Arm, PxB at (1,0) in
\* Full Arm only; the mean of A, A, B is (133, 66, 118).
C13_Witness ==
    /\ Tested
    /\ image.w = 4
    /\ image.h = 2
    /\ image.px[<<2, 0>>] = PxA
    /\ image.px[<<1, 0>>] = PxB
    /\ resp.color = JList(<<133, 66, 118>>)

\* The image with every pixel outside the four areas painted opaque black.
Masked(img) ==
    LET areas == detection_areas(img.w, img.h)
    IN  [img EXCEPT !.px = [c \in Coords(img) |->
                               IF Multiplicity(areas, c) > 0 THEN img.px[c]
                               ELSE <<0, 0, 0, 255>>]]

\* C14: detect falls back to the whole image exactly when no area holds an
\* opaque pixel, and then returns the truncated mean of all opaque pixels,
\* each counted once; when some area holds an opaque pixel, the pixels
\* outside the areas do not influence the result.
C14_WholeImageFallback ==
    Tested =>
        LET pooled == PooledTotals(image)
            whole == WholeTotals(image)
        IN  /\ resp.via \in {"whole", "empty"} <=> pooled[1] = 0
            /\ (pooled[1] = 0 /\ whole[1] > 0) => resp.color = MeanOf(whole)
            /\ pooled[1] > 0 => resp.color = DetectImage(Masked(image)).value

\* 4 x 2 with opaque pixels only outside the areas: PxA at (3,0), PxB at (0,1).
C14_Witness ==
    /\ Tested
    /\ image.w = 4
    /\ image.h = 2
    /\ resp.via = "whole"
    /\ image.px[<<3, 0>>] = PxA
    /\ image.px[<<0, 1>>] = PxB
    /\ resp.color = JList(<<100, 50, 152>>)

\* C15: a detect that ends in the error fallback or finds no opaque pixel
\* leaves white cached under its id, and while white is cached under an id
\* every detect of that id returns white without a remote fetch, whatever
\* the remote would answer now.
C15_SentinelMemoized ==
    [][(resp'.op = "analyze" /\ resp'.status = 200)
        => LET id == resp'.texture_id.s
           IN  /\ resp'.via \in {"fallback", "empty"}
                     => id \in CacheKeys(cache') /\ CacheGet(cache', id) = White
               /\ (id \in CacheKeys(cache) /\ CacheGet(cache, id) = White)
                     => /\ resp'.color = White
                        /\ resp'.fetches = 0
                        /\ resp'.outcome = "none"]_vars

C15_Witness ==
    /\ AnalyzeOk
    /\ resp.via = "hit"
    /\ resp.color = White
    /\ resp.fetches = 0
    /\ Len(cache) = maxsize

\* The cache entries for ids other than id, in cache order.
OtherEntries(c, id) == SelectSeq(c, LAMBDA e : e.key # id)

\* C16: add_override leaves the cache as it is and changes no override
\* entry but the one of its texture_id; analyze leaves the override table
\* as it is, and of the cache entries of other ids it changes none and
\* removes at most one, the oldest.
C16_FrameConditions ==
    [][/\ resp'.op = "add_override"
            => /\ cache' = cache
               /\ \A k \in DOMAIN SHIRT_OVERRIDES \cup DOMAIN SHIRT_OVERRIDES' :
                      k # DictKey(resp'.texture_id)
                          => /\ k \in DOMAIN SHIRT_OVERRIDES
                             /\ k \in DOMAIN SHIRT_OVERRIDES'
                             /\ SHIRT_OVERRIDES'[k] = SHIRT_OVERRIDES[k]
       /\ resp'.op = "analyze"
            => /\ SHIRT_OVERRIDES' = SHIRT_OVERRIDES
               /\ LET id == resp'.texture_id.s
                      before == OtherEntries(cache, id)
                      after == OtherEntries(cache', id)
                  IN  /\ CacheKeys(cache') \ CacheKeys(cache) \subseteq {id}
                      /\ \/ after = before
                         \/ before # <<>> /\ after = Tail(before)]_vars

\* An override has just been set for an id whose detected colour is cached,
\* next to the cached entry of another id.
C16_Witness ==
    /\ resp.op = "add_override"
    /\ resp.status = 200
    /\ resp.texture_id = JStr(Str1)
    /\ Len(cache) = maxsize
    /\ Str1 \in CacheKeys(cache)
    /\ CacheGet(cache, Str1) = Detected[1].value
    /\ Cardinality(DOMAIN SHIRT_OVERRIDES) = 2

====
